---- MODULE Spec2Model ----
(***************************************************************************)
(* Ace Fixings storefront app (src/src/App.jsx), its Netlify storefront    *)
(* proxy (src/netlify/functions/shopify.js) and its two Vercel endpoints.  *)
(*                                                                         *)
(* Spec        the App component: boot effect, mount effects, OAuth/PKCE   *)
(*             login, deep-link callback, logout, orders hub, cart id.     *)
(* SpecProfile loadCustomerProfile as a function of its closure and of     *)
(*             the reply of the Customer Account API.                      *)
(* SpecProxy   the Netlify handler as a function of the event, the         *)
(*             environment and the upstream reply.                         *)
(* SpecVat     the submitVatVerification endpoint (src/unnamed/part_000).  *)
(* SpecRegister the registerCustomer endpoint (src/unnamed/part_001).      *)
(* SpecRegClient the App with its registration form (registerCustomer).    *)
(*                                                                         *)
(* Granularity.  An async function runs without interruption up to a       *)
(* network await; Preferences calls settle in the order they were issued   *)
(* and are folded into the step that issues them.  The functions the boot  *)
(* effect and the appUrlOpen listener call are the ones of the first       *)
(* render (the effect has an empty dependency list), so the state they     *)
(* read through their closure is the initial state of the component.       *)
(***************************************************************************)
EXTENDS Integers, Sequences, FiniteSets, TLC

\* ---------------------------------------------------------------- bounds
MaxLogins == 1
MaxCarts == 2
MaxTags == 2
MaxRegs == 2

\* ------------------------------------------------------- program constants
K == [VAT_MODE |-> "acefixings_vat_mode",
      CART_ID |-> "acefixings_cart_id",
      AUTH |-> "acefixings_auth",
      PKCE |-> "acefixings_pkce",
      PROFILE |-> "acefixings_customer_profile",
      ORDERS_CACHE |-> "acefixings_orders_cache"]

Keys == {K.VAT_MODE, K.CART_ID, K.AUTH, K.PKCE, K.PROFILE, K.ORDERS_CACHE}

\* JavaScript null / undefined
Null == [null |-> TRUE]
Undefined == "undefined"

\* useState initial values that closures of the first render keep reading
InitCustApi == Null
InitOidc == Null
InitCartId == ""
InitVatMode == "inc"

\* ---------------------------------------------------------------- helpers
\* Preferences: an entry is absent or holds a value
Absent == [has |-> FALSE, val |-> <<>>]
Entry(v) == [has |-> TRUE, val |-> v]
PrefSet(p, k, v) == [p EXCEPT ![k] = Entry(v)]
PrefRemove(p, k) == [p EXCEPT ![k] = Absent]

\* JSON.stringify of an object drops the members whose value is undefined;
\* reading a member that is not there gives undefined.
JsonStringify(obj) == [k \in {f \in DOMAIN obj : obj[f] # Undefined} |-> obj[k]]
Field(obj, f) == IF f \in DOMAIN obj THEN obj[f] ELSE Undefined
Truthy(s) == s # Undefined /\ s # ""

\* decodeJwt(id_token) then payload.email || ... || ""
JwtEmail(idToken) ==
  IF idToken = "idtA" THEN "a@x.com" ELSE ""

\* custApi?.graphql_api || ...  ("" when nothing was discovered)
GraphqlUrl(api) == IF api = Null THEN "" ELSE Field(api, "graphql_api")

DiscoveredOidc == [authorization_endpoint |-> "https://shopify/authorize",
                   token_endpoint |-> "https://shopify/token"]
DiscoveredCustApi == [graphql_api |-> "https://shopify/customer/graphql"]

VARIABLES
  isNative,          \* Capacitor.isNativePlatform()
  prefs,             \* Preferences store, by key
  prevPrefs,         \* the store as the previous run left it
  serverCarts,       \* cart ids Shopify still returns
  nextCart,          \* number of the next cart Shopify creates
  booted, error, toast, vatMode, auth, userEmail, userName,
  isNonVatCustomer, view, cartId, cart, orders, companyAccount,
  oidc, custApi,     \* React state of App
  deepLinkHandled,   \* deepLinkHandledRef.current
  listenerRegistered,\* CapApp.addListener("appUrlOpen") was called
  browserOpen,       \* Browser.open without a later Browser.close
  bootPc, bootSavedVat, bootDiscoveryOk,
  loginPc, loginCount,
  cb,                \* the running appUrlOpen listener invocation
  ordersPc,          \* the running loadOrdersFromApi invocation
  ens,               \* the running ensureCartId invocation
  tokenRequestSent,  \* a token request has been sent
  exchanged,         \* verifiers of the token exchanges that succeeded, in order
  profileInvoked,    \* loadCustomerProfile has been called by boot or listener
  profileQuerySent,  \* it sent the customer query
  bootCartCreate,    \* the boot effect issued cartCreate
  loggedOut,         \* logout() completed and no login succeeded since
  regLoading,        \* React state regLoading
  regCall,           \* the running registerCustomer() invocation of the App
  vatSubmitted,      \* emails e with a Preferences entry vat_submitted_e
  bare,              \* the un-awaited ensureCartId() of a quick add
  linesIn,           \* carts that received a line in the current cart action
  net,               \* storefront requests of the current cart action
  lcp,               \* SpecProfile: the loadCustomerProfile invocation
  px,                \* SpecProxy: the handler invocation
  vat,               \* SpecVat: the submitVatVerification invocation
  reg,               \* SpecRegister: the registerCustomer endpoint invocation
  pf                 \* SpecPostForm: httpPostForm on both platforms

appVars == <<isNative, prefs, prevPrefs, serverCarts, nextCart, booted, error,
             toast, vatMode, auth, userEmail, userName, isNonVatCustomer, view,
             cartId, cart, orders, companyAccount, oidc, custApi,
             deepLinkHandled, listenerRegistered, browserOpen, bootPc,
             bootSavedVat, bootDiscoveryOk, loginPc, loginCount, cb, ordersPc,
             ens, tokenRequestSent, exchanged, profileInvoked, profileQuerySent,
             bootCartCreate, loggedOut, regLoading, regCall, vatSubmitted,
             bare, linesIn, net>>
fnVars == <<lcp, px, vat, reg, pf>>
vars == <<appVars, fnVars>>

\* groups used in UNCHANGED
regVars == <<regLoading, regCall, vatSubmitted>>
addVars == <<bare, linesIn, net>>
envVars == <<isNative, prevPrefs, fnVars, regVars>>
cartVars == <<serverCarts, nextCart, cart, ens, bootCartCreate>>
loginVars == <<loginPc, loginCount, cb, deepLinkHandled, browserOpen,
               tokenRequestSent, exchanged>>
profVars == <<userName, isNonVatCustomer, companyAccount, profileInvoked, profileQuerySent>>
discVars == <<oidc, custApi, listenerRegistered, bootDiscoveryOk>>
uiVars == <<toast, view, error>>


\* ------------------------------------------------------- values in flight
StoredCart == "cart0"
NewCartId(n) == "cart" \o ToString(n)

AuthFull == [access_token |-> "at1", id_token |-> "idtA",
             refresh_token |-> "rt1", expires_at |-> "exp1"]
AuthMin == [access_token |-> "at2", id_token |-> Undefined,
            refresh_token |-> Undefined, expires_at |-> "exp2"]
StalePkce == [verifier |-> 0, state |-> 0]
OrderList == <<"o1">>

IdleCb == [pc |-> "idle", code |-> "", state |-> -1, verifier |-> -1, ok |-> FALSE]
IdleEns == [pc |-> "idle", owner |-> "", closure |-> "", newId |-> ""]
IdleLcp == [pc |-> "idle"]
IdlePx == [pc |-> "idle"]
IdleVat == [pc |-> "idle"]
IdleReg == [pc |-> "idle"]
IdleBare == [pc |-> "idle", closure |-> "", newId |-> ""]
IdlePf == [pc |-> "idle"]
IdleRegCall == [pc |-> "idle", n |-> 0, email |-> "", vatNumber |-> "", outcome |-> "none"]

\* What a previous run of the app can have left in Preferences.  The web
\* build never logs in, so only the native store holds auth, pkce or orders:
\* logged out, logged out with an unfinished login, logged in, logged in with
\* cached orders.
\* acefixings_customer_profile is never written (see LoadCustomerProfileTail).
PreviousRunPrefs(native) ==
  { [k \in Keys |->
       CASE k = K.VAT_MODE -> v
         [] k = K.CART_ID -> c
         [] k = K.AUTH -> s[1]
         [] k = K.PKCE -> s[2]
         [] k = K.PROFILE -> Absent
         [] k = K.ORDERS_CACHE -> s[3]] :
     v \in {Absent, Entry("inc"), Entry("ex")},
     c \in {Absent, Entry(StoredCart)},
     s \in IF native
             THEN { <<Absent, Absent, Absent>>,
                    <<Absent, Entry(StalePkce), Absent>>,
                    <<Entry(JsonStringify(AuthFull)), Absent, Absent>>,
                    <<Entry(JsonStringify(AuthFull)), Absent, Entry(OrderList)>> }
             ELSE { <<Absent, Absent, Absent>> } }

AppInit ==
  /\ isNative \in BOOLEAN
  /\ prefs \in PreviousRunPrefs(isNative)
  /\ prevPrefs = prefs
  /\ serverCarts \in IF prefs[K.CART_ID].has THEN {{}, {StoredCart}} ELSE {{}}
  /\ nextCart = 1
  /\ booted = FALSE
  /\ error = ""
  /\ toast = ""
  /\ vatMode = InitVatMode
  /\ auth = Null
  /\ userEmail = ""
  /\ userName = ""
  /\ isNonVatCustomer = FALSE
  /\ view = "home"
  /\ cartId = InitCartId
  /\ cart = Null
  /\ orders = <<>>
  /\ companyAccount = Null
  /\ oidc = InitOidc
  /\ custApi = InitCustApi
  /\ deepLinkHandled = FALSE
  /\ listenerRegistered = FALSE
  /\ browserOpen = FALSE
  /\ bootPc = "mount"
  /\ bootSavedVat = Absent
  /\ bootDiscoveryOk = FALSE
  /\ loginPc = "idle"
  /\ loginCount = 0
  /\ cb = IdleCb
  /\ ordersPc = "idle"
  /\ ens = IdleEns
  /\ tokenRequestSent = FALSE
  /\ exchanged = <<>>
  /\ profileInvoked = FALSE
  /\ profileQuerySent = FALSE
  /\ bootCartCreate = FALSE
  /\ loggedOut = FALSE
  /\ regLoading = FALSE
  /\ regCall = IdleRegCall
  /\ vatSubmitted = {}
  /\ bare = IdleBare
  /\ linesIn = {}
  /\ net = <<>>

Init ==
  AppInit /\ lcp = IdleLcp /\ px = IdlePx /\ vat = IdleVat /\ reg = IdleReg
  /\ pf = IdlePf

\* ------------------------------------------------ effects on [vatMode], [cartId]
\* useEffect(() => Preferences.set(VAT_MODE, vatMode), [vatMode]) and
\* useEffect(() => { if (cartId) Preferences.set(CART_ID, cartId) }, [cartId]),
\* run after the render that follows a change of the state they depend on.
PersistEffects(p, oldVat, newVat, oldCart, newCart) ==
  LET p1 == IF newVat # oldVat THEN PrefSet(p, K.VAT_MODE, newVat) ELSE p
  IN IF newCart # oldCart /\ newCart # "" THEN PrefSet(p1, K.CART_ID, newCart) ELSE p1

\* On native the boot effect first awaits StatusBar.setStyle, so its
\* Preferences.get(VAT_MODE) is issued after the mount effects; on web the
\* get is the first await and is issued before them.
BootReadsVatBeforeMountEffects(native) == ~native

\* First commit: the synchronous prefix of the boot effect, then the mount
\* run of the [vatMode] effect (writes the initial "inc") and of the [cartId]
\* effect (cartId is "", nothing written).
Mount ==
  /\ bootPc = "mount"
  /\ bootSavedVat' = IF BootReadsVatBeforeMountEffects(isNative) THEN prefs[K.VAT_MODE] ELSE Absent
  /\ prefs' = LET p1 == PrefSet(prefs, K.VAT_MODE, vatMode)
              IN IF cartId # "" THEN PrefSet(p1, K.CART_ID, cartId) ELSE p1
  /\ bootPc' = "prefs"
  /\ UNCHANGED <<envVars, addVars, cartVars, loginVars, profVars, discVars, uiVars,
                 booted, vatMode, auth, userEmail, cartId, orders, ordersPc,
                 loggedOut>>

\* Boot effect, lines 1712-1718: restore VAT mode and cart id, start discovery.
BootReadPrefs ==
  /\ bootPc = "prefs"
  /\ LET savedVat == IF BootReadsVatBeforeMountEffects(isNative) THEN bootSavedVat
                     ELSE prefs[K.VAT_MODE]
         newVat == IF savedVat.has /\ savedVat.val \in {"inc", "ex"} THEN savedVat.val
                   ELSE vatMode
         savedCartId == prefs[K.CART_ID]
         newCart == IF savedCartId.has /\ savedCartId.val # "" THEN savedCartId.val
                    ELSE cartId
     IN /\ vatMode' = newVat
        /\ cartId' = newCart
        /\ prefs' = PersistEffects(prefs, vatMode, newVat, cartId, newCart)
  /\ bootPc' = "discover"
  /\ UNCHANGED <<envVars, addVars, cartVars, loginVars, profVars, discVars, uiVars,
                 booted, auth, userEmail, orders, ordersPc, bootSavedVat,
                 loggedOut>>

\* ------------------------------------------------------ loadCustomerProfile
\* customerApiGraphql throws before any request when its closure holds no url
LcpSendsQuery(closureApi) == GraphqlUrl(closureApi) # ""

\* customerApiGraphql: the reply makes it throw (native: status >= 400,
\* web: !res.ok; both: a non-empty errors array; a rejected request)
CustomerApiThrows(native, reply) ==
  \/ reply.net = "fail"
  \/ IF native THEN reply.status # 0 /\ reply.status >= 400
               ELSE ~(reply.status >= 200 /\ reply.status <= 299)
  \/ reply.errors

\* String.prototype.toLowerCase on a string given as its characters
LowerChar(c) ==
  CASE c = "V" -> "v" [] c = "A" -> "a" [] c = "T" -> "t" [] c = "E" -> "e"
    [] c = "R" -> "r" [] c = "I" -> "i" [] c = "F" -> "f" [] c = "D" -> "d"
    [] OTHER -> c
ToLowerCase(str) == [i \in DOMAIN str |-> LowerChar(str[i])]

VatVerifiedTag == <<"v", "a", "t", "-", "v", "e", "r", "i", "f", "i", "e", "d">>

\* a case-sensitive comparison, as a slip in line 1382 would make it
IsVatVerifiedCaseSensitive(tags) == \E i \in DOMAIN tags : tags[i] = VatVerifiedTag

\* tags.some(tag => tag?.toLowerCase() === "vat-verified")
IsVatVerified(tags) == \E i \in DOMAIN tags : ToLowerCase(tags[i]) = VatVerifiedTag

\* `${first} ${last}`.trim()
FullName(first, last) ==
  IF first = "" THEN last ELSE IF last = "" THEN first ELSE first \o " " \o last

\* email ? `gid://shopify/Customer/${email.split("@")[0]}` : ""
CustomerId(email) == IF email = "" THEN "" ELSE "gid://shopify/Customer/a"

\* data?.customer?.x || default
CustomerOf(reply) ==
  IF reply.customer = Null
    THEN [firstName |-> "", lastName |-> "", email |-> "", tags |-> <<>>]
    ELSE reply.customer

\* The identifier isNonVat used in lines 1428 and 1431 is declared nowhere in
\* App.jsx: evaluating it throws a ReferenceError inside the try block.
IsNonVatDeclared == FALSE

\* setCompanyAccount(...) of lines 1405-1424
CompanyAccountFor(c) ==
  [id |-> CustomerId(c.email), name |-> FullName(c.firstName, c.lastName),
   verified |-> IsVatVerified(c.tags), reverseCharge |-> IsVatVerified(c.tags)]

\* --------------------------------------------------------------- boot effect
\* Lines 1718-1780: discovery, then profile, orders cache, auth, listener,
\* loadCollections.  A failed discovery throws to the catch of line 1784.
BootDiscover(ok) ==
  /\ bootPc = "discover"
  /\ IF ~ok
       THEN /\ error' = "Invalid JSON from discovery endpoint"
            /\ booted' = TRUE
            /\ bootPc' = "done"
            /\ UNCHANGED <<prefs, vatMode, auth, userEmail, orders, profVars,
                           discVars, toast, view>>
       ELSE LET prof == prefs[K.PROFILE]
                profEmail == IF prof.has THEN Field(prof.val, "email") ELSE Undefined
                profName == IF prof.has THEN Field(prof.val, "fullName") ELSE Undefined
                profNonVat == prof.has /\ Field(prof.val, "isNonVat") = "true"
                oc == prefs[K.ORDERS_CACHE]
                savedAuth == prefs[K.AUTH]
                restore == savedAuth.has /\ Truthy(Field(savedAuth.val, "access_token"))
                jwtEmail == IF restore THEN JwtEmail(Field(savedAuth.val, "id_token")) ELSE ""
                newVat == IF profNonVat THEN "ex" ELSE vatMode
                callsProfile == restore /\ isNative
            IN /\ oidc' = DiscoveredOidc
               /\ custApi' = DiscoveredCustApi
               /\ bootDiscoveryOk' = TRUE
               /\ userEmail' = IF jwtEmail # "" THEN jwtEmail
                               ELSE IF Truthy(profEmail) THEN profEmail ELSE userEmail
               /\ userName' = IF Truthy(profName) THEN profName ELSE userName
               /\ isNonVatCustomer' = (isNonVatCustomer \/ profNonVat)
               /\ vatMode' = newVat
               /\ prefs' = PersistEffects(prefs, vatMode, newVat, cartId, cartId)
               /\ orders' = IF oc.has /\ Len(oc.val) > 0 THEN oc.val ELSE orders
               /\ auth' = IF restore THEN savedAuth.val ELSE auth
               \* loadCustomerProfile of the first render: closure custApi
               /\ profileInvoked' = (profileInvoked \/ callsProfile)
               /\ profileQuerySent' =
                    (profileQuerySent \/ (callsProfile /\ LcpSendsQuery(InitCustApi)))
               /\ listenerRegistered' = isNative
               /\ error' = ""
               /\ bootPc' = "collections"
               /\ UNCHANGED <<booted, companyAccount, toast, view>>
  /\ UNCHANGED <<envVars, addVars, cartVars, loginVars, cartId, ordersPc, bootSavedVat,
                 loggedOut>>

\* ensureCartId(): the first request depends on the cartId of its closure
EnsureFirstRequest(closureCartId) ==
  IF closureCartId # "" THEN "fetchStored" ELSE "create"

\* Lines 1780-1781: loadCollections catches its own error; then
\* ensureCartId of the first render is called (closure cartId).
BootCollections(ok) ==
  /\ bootPc = "collections"
  /\ ens.pc = "idle"
  /\ ens' = [pc |-> EnsureFirstRequest(InitCartId), owner |-> "boot",
             closure |-> InitCartId, newId |-> ""]
  /\ bootCartCreate' = (EnsureFirstRequest(InitCartId) = "create")
  /\ error' = IF EnsureFirstRequest(InitCartId) = "fetchStored" THEN ""
              ELSE IF ok THEN error ELSE "Storefront HTTP error"
  /\ bootPc' = "cart"
  /\ net' = <<>>
  /\ UNCHANGED <<envVars, bare, linesIn, serverCarts, nextCart, cart, loginVars,
                 profVars, discVars, toast, view, prefs, booted, vatMode, auth,
                 userEmail, cartId, orders, ordersPc, bootSavedVat, loggedOut>>

\* ------------------------------------------------------------- ensureCartId
\* one storefront request of a call chain and whether it succeeded
Req(by, req, ok) == [by |-> by, req |-> req, ok |-> ok]

\* the id that ensureCartId returned to cartAddLine (lines 2043, 2049)
EnsId(e) == IF e.newId # "" THEN e.newId ELSE e.closure

\* a caller that would issue the failed request again
AddFailsAndRetries(msg) ==
  /\ ens' = ens
  /\ error' = error

\* the catch of the caller: the product view sets the error (line 3829);
\* the promise of a quick add has no handler (lines 2358, 4887)
AddFails(msg) ==
  /\ ens' = IdleEns
  /\ error' = IF ens.owner = "quick" THEN error ELSE msg

\* How the caller of ensureCartId ends: the boot effect sets booted (line
\* 1783, or the catch of line 1784); the cart button sets view to "cart"
\* (line 3323) or the error (line 3325); cartAddLine goes on to its
\* cartLinesAdd request (line 2062) or throws to its caller.
EnsureEnds(ok, msg) ==
  CASE ens.owner = "boot" ->
         /\ ens' = IdleEns
         /\ error' = IF ok THEN error ELSE msg
         /\ booted' = TRUE /\ bootPc' = "done" /\ view' = view
    [] ens.owner = "user" ->
         /\ ens' = IdleEns
         /\ error' = IF ok THEN error ELSE msg
         /\ booted' = booted /\ bootPc' = bootPc
         /\ view' = IF ok THEN "cart" ELSE view
    [] OTHER ->
         /\ IF ok THEN ens' = [ens EXCEPT !.pc = "linesAdd"] /\ error' = error
                  ELSE AddFails(msg)
         /\ UNCHANGED <<booted, bootPc, view>>

\* fetchCart(cartId) of line 2042 answered: found, or swallowed by catch {}
\* and followed by createCart.
EnsureFetchStored(netOk) ==
  /\ ens.pc = "fetchStored"
  /\ IF netOk /\ ens.closure \in serverCarts
       THEN /\ cart' = [id |-> ens.closure]
            /\ EnsureEnds(TRUE, "")
            /\ UNCHANGED bootCartCreate
       ELSE /\ ens' = [ens EXCEPT !.pc = "create"]
            /\ bootCartCreate' = (bootCartCreate \/ ens.owner = "boot")
            /\ UNCHANGED <<cart, error, booted, bootPc, view>>
  /\ net' = Append(net, Req("call", "fetchStored",
                            netOk /\ ens.closure \in serverCarts))
  /\ UNCHANGED <<envVars, bare, linesIn, serverCarts, nextCart, loginVars,
                 profVars, discVars, toast, prefs, vatMode, auth, userEmail,
                 cartId, orders, ordersPc, bootSavedVat, loggedOut>>

\* createCart() answered (lines 2046-2048): setCartId, the [cartId] effect
\* persists it, fetchCart(newId) starts.
EnsureCreate(ok) ==
  /\ ens.pc = "create"
  /\ IF ok
       THEN LET newId == NewCartId(nextCart)
            IN /\ nextCart' = nextCart + 1
               /\ serverCarts' = serverCarts \cup {newId}
               /\ cartId' = newId
               /\ prefs' = PersistEffects(prefs, vatMode, vatMode, cartId, newId)
               /\ ens' = [ens EXCEPT !.pc = "fetchNew", !.newId = newId]
               /\ error' = ""
               /\ UNCHANGED <<booted, bootPc, view>>
       ELSE /\ EnsureEnds(FALSE, "Failed to create cart")
            /\ UNCHANGED <<nextCart, serverCarts, cartId, prefs>>
  /\ net' = Append(net, Req("call", "cartCreate", ok))
  /\ UNCHANGED <<envVars, bare, linesIn, cart, bootCartCreate, loginVars,
                 profVars, discVars, toast, vatMode, auth, userEmail, orders,
                 ordersPc, bootSavedVat, loggedOut>>

\* fetchCart(newId) answered
EnsureFetchNew(ok) ==
  /\ ens.pc = "fetchNew"
  /\ IF ok
       THEN cart' = [id |-> ens.newId] /\ EnsureEnds(TRUE, "")
       ELSE cart' = cart /\ EnsureEnds(FALSE, "Cart not found (expired).")
  /\ net' = Append(net, Req("call", "fetchNew", ok))
  /\ UNCHANGED <<envVars, bare, linesIn, serverCarts, nextCart, bootCartCreate,
                 loginVars, profVars, discVars, toast, prefs, vatMode, auth,
                 userEmail, cartId, orders, ordersPc, bootSavedVat, loggedOut>>

\* Cart button (lines 3320-3327, 4686-4693): ensureCartId of the current render
OpenCart ==
  /\ booted
  /\ ens.pc = "idle"
  /\ bare.pc = "idle"
  /\ nextCart <= MaxCarts
  /\ ens' = [pc |-> EnsureFirstRequest(cartId), owner |-> "user",
             closure |-> cartId, newId |-> ""]
  /\ error' = IF EnsureFirstRequest(cartId) = "fetchStored" THEN "" ELSE error
  /\ net' = <<>>
  /\ linesIn' = {}
  /\ UNCHANGED <<envVars, bare, serverCarts, nextCart, cart,
                 bootCartCreate, loginVars, profVars, discVars, toast, view,
                 prefs, booted, vatMode, auth, userEmail, cartId, orders,
                 ordersPc, bootPc, bootSavedVat, loggedOut>>

\* ------------------------------------------------------------ add to cart
\* the toasts of lines 3827 and 4888 (the latter without its check mark)
AddedToCart == "Added to cart"
QuickAdded == "Added to cart!"

\* what every add-to-cart step leaves alone
addRest == <<envVars, bootCartCreate, loginVars, profVars, discVars, view,
             booted, vatMode, auth, userEmail, orders, ordersPc, bootPc,
             bootSavedVat, loggedOut>>

\* Product view (lines 3824-3831): await cartAddLine(variantId, qty), which
\* starts with ensureCartId of the current render.
ProductAdd ==
  /\ booted
  /\ ens.pc = "idle"
  /\ bare.pc = "idle"
  /\ nextCart <= MaxCarts
  /\ ens' = [pc |-> EnsureFirstRequest(cartId), owner |-> "add",
             closure |-> cartId, newId |-> ""]
  /\ error' = IF EnsureFirstRequest(cartId) = "fetchStored" THEN "" ELSE error
  /\ net' = <<>>
  /\ linesIn' = {}
  /\ UNCHANGED <<addRest, bare, serverCarts, nextCart, cart, cartId, prefs,
                 toast>>

\* Quick add of a recently ordered item (lines 2354-2364) and the quick view
\* button (lines 4883-4890): ensureCartId() and cartAddLine() are both
\* started, neither is awaited, and the toast is set at once.
QuickAdd ==
  /\ booted
  /\ ens.pc = "idle"
  /\ bare.pc = "idle"
  /\ nextCart <= MaxCarts
  /\ bare' = [pc |-> EnsureFirstRequest(cartId), closure |-> cartId,
              newId |-> ""]
  /\ ens' = [pc |-> EnsureFirstRequest(cartId), owner |-> "quick",
             closure |-> cartId, newId |-> ""]
  /\ error' = IF EnsureFirstRequest(cartId) = "fetchStored" THEN "" ELSE error
  /\ toast' = QuickAdded
  /\ net' = <<>>
  /\ linesIn' = {}
  /\ UNCHANGED <<addRest, serverCarts, nextCart, cart, cartId, prefs>>

\* The un-awaited ensureCartId(): fetchCart(cartId) of line 2042 answered
BareFetchStored(netOk) ==
  /\ bare.pc = "fetchStored"
  /\ IF netOk /\ bare.closure \in serverCarts
       THEN cart' = [id |-> bare.closure] /\ bare' = IdleBare
       ELSE cart' = cart /\ bare' = [bare EXCEPT !.pc = "create"]
  /\ net' = Append(net, Req("bare", "fetchStored",
                            netOk /\ bare.closure \in serverCarts))
  /\ UNCHANGED <<addRest, ens, linesIn, serverCarts, nextCart, cartId, prefs,
                 toast, error>>

\* The un-awaited ensureCartId(): createCart() answered (lines 2046-2048);
\* its rejection has no handler.
BareCreate(ok) ==
  /\ bare.pc = "create"
  /\ IF ok
       THEN LET newId == NewCartId(nextCart)
            IN /\ nextCart' = nextCart + 1
               /\ serverCarts' = serverCarts \cup {newId}
               /\ cartId' = newId
               /\ prefs' = PersistEffects(prefs, vatMode, vatMode, cartId, newId)
               /\ bare' = [bare EXCEPT !.pc = "fetchNew", !.newId = newId]
               /\ error' = ""
       ELSE /\ bare' = IdleBare
            /\ UNCHANGED <<nextCart, serverCarts, cartId, prefs, error>>
  /\ net' = Append(net, Req("bare", "cartCreate", ok))
  /\ UNCHANGED <<addRest, ens, linesIn, cart, toast>>

\* The un-awaited ensureCartId(): fetchCart(newId) answered
BareFetchNew(ok) ==
  /\ bare.pc = "fetchNew"
  /\ cart' = IF ok THEN [id |-> bare.newId] ELSE cart
  /\ bare' = IdleBare
  /\ net' = Append(net, Req("bare", "fetchNew", ok))
  /\ UNCHANGED <<addRest, ens, linesIn, serverCarts, nextCart, cartId, prefs,
                 toast, error>>

\* cartAddLine: the cartLinesAdd request answered (lines 2062-2068); a
\* success is followed by fetchCart(id), which clears the error.
LinesAdd(ok) ==
  /\ ens.pc = "linesAdd"
  /\ IF ok
       THEN /\ linesIn' = linesIn \cup {EnsId(ens)}
            /\ ens' = [ens EXCEPT !.pc = "refresh"]
            /\ error' = ""
       ELSE /\ linesIn' = linesIn
            /\ AddFails("Storefront HTTP error")
  /\ net' = Append(net, Req("call", "cartLinesAdd", ok))
  /\ UNCHANGED <<addRest, bare, serverCarts, nextCart, cart, cartId, prefs,
                 toast>>

\* cartAddLine: fetchCart(id) of line 2068 answered; the product view then
\* sets its toast (line 3827).
Refresh(ok) ==
  /\ ens.pc = "refresh"
  /\ IF ok
       THEN /\ cart' = [id |-> EnsId(ens)]
            /\ ens' = IdleEns
            /\ error' = error
            /\ toast' = IF ens.owner = "add" THEN AddedToCart ELSE toast
       ELSE /\ cart' = cart
            /\ AddFails("Cart not found (expired).")
            /\ toast' = toast
  /\ net' = Append(net, Req("call", "refresh", ok))
  /\ UNCHANGED <<addRest, bare, linesIn, serverCarts, nextCart, cartId, prefs>>

\* ------------------------------------------------------------------ orders
\* Orders tab (lines 4722-4729) and the [view] effect (lines 1813-1818) that
\* calls loadOrdersFromApi({silent: true}) of the new render.
NavOrders ==
  /\ booted
  /\ ordersPc = "idle"
  /\ IF auth = Null
       THEN /\ toast' = "Login to view orders"
            /\ view' = "account"
            /\ UNCHANGED ordersPc
       ELSE /\ view' = "orders"
            /\ toast' = toast
            /\ ordersPc' = IF view # "orders" /\ isNative
                              /\ Truthy(Field(auth, "access_token"))
                              /\ LcpSendsQuery(custApi)
                           THEN "await" ELSE "idle"
  /\ UNCHANGED <<envVars, addVars, cartVars, loginVars, profVars, discVars, error,
                 prefs, booted, vatMode, auth, userEmail, cartId, orders,
                 bootPc, bootSavedVat, loggedOut>>

OrdersReplies ==
  { [net |-> "fail", status |-> 0, errors |-> FALSE, list |-> <<>>],
    [net |-> "ok", status |-> 401, errors |-> FALSE, list |-> <<>>],
    [net |-> "ok", status |-> 200, errors |-> FALSE, list |-> <<>>],
    [net |-> "ok", status |-> 200, errors |-> FALSE, list |-> OrderList] }

\* loadOrdersFromApi after its await (lines 1651-1676)
OrdersReply(reply) ==
  /\ ordersPc = "await"
  /\ ordersPc' = "idle"
  /\ IF CustomerApiThrows(isNative, reply)
       THEN UNCHANGED <<orders, prefs>>
       ELSE /\ orders' = reply.list
            /\ prefs' = PrefSet(prefs, K.ORDERS_CACHE, reply.list)
  /\ UNCHANGED <<envVars, addVars, cartVars, loginVars, profVars, discVars, uiVars,
                 booted, vatMode, auth, userEmail, cartId, bootPc,
                 bootSavedVat, loggedOut>>

\* Account tab (line 4735) and Shop button (line 4568)
NavAccount ==
  /\ booted
  /\ view # "account"
  /\ view' = "account"
  /\ UNCHANGED <<envVars, addVars, cartVars, loginVars, profVars, discVars, toast,
                 error, prefs, booted, vatMode, auth, userEmail, cartId,
                 orders, ordersPc, bootPc, bootSavedVat, loggedOut>>

\* ------------------------------------------------------------------ logout
Logout ==
  /\ booted
  /\ auth # Null
  /\ view = "account"
  /\ auth' = Null
  /\ userEmail' = ""
  /\ userName' = ""
  /\ isNonVatCustomer' = FALSE
  /\ vatMode' = "inc"
  /\ companyAccount' = Null
  /\ orders' = <<>>
  /\ prefs' = PersistEffects(
                PrefRemove(PrefRemove(PrefRemove(prefs, K.AUTH), K.PROFILE),
                           K.ORDERS_CACHE),
                vatMode, "inc", cartId, cartId)
  /\ toast' = "Logged out"
  /\ loggedOut' = TRUE
  /\ UNCHANGED <<envVars, addVars, cartVars, loginVars, discVars, profileInvoked,
                 profileQuerySent, view, error, booted, cartId, ordersPc,
                 bootPc, bootSavedVat>>

\* ------------------------------------------------------------------- login
\* a web build that did not take the early return of line 2391
LoginDisabledNever(native) == FALSE

\* if (!isNative) { toast; setView("account"); return; }   (lines 2391-2395)
LoginDisabled(native) == ~native

\* Lines 2405-2428: fresh verifier and state, stored under acefixings_pkce,
\* then Browser.open.
LoginOpensBrowser ==
  /\ loginCount' = loginCount + 1
  /\ prefs' = PrefSet(prefs, K.PKCE,
                      [verifier |-> loginCount + 1, state |-> loginCount + 1])
  /\ browserOpen' = TRUE

\* Login button of the account view (line 4331, shown when !auth && !userEmail)
StartLogin ==
  /\ booted
  /\ view = "account"
  /\ auth = Null
  /\ userEmail = ""
  /\ loginPc = "idle"
  /\ cb.pc = "idle"
  /\ loginCount < MaxLogins
  /\ error' = ""
  /\ IF LoginDisabled(isNative)
       THEN /\ toast' = "Login works in the Android app (not on localhost)"
            /\ view' = "account"
            /\ UNCHANGED <<loginPc, loginCount, prefs, browserOpen, deepLinkHandled>>
       ELSE /\ deepLinkHandled' = FALSE
            /\ UNCHANGED <<toast, view>>
            /\ IF oidc # Null /\ custApi # Null
                 THEN LoginOpensBrowser /\ UNCHANGED loginPc
                 ELSE loginPc' = "discover"
                      /\ UNCHANGED <<loginCount, prefs, browserOpen>>
  /\ UNCHANGED <<envVars, addVars, cartVars, cb, tokenRequestSent, exchanged, profVars,
                 discVars, booted, vatMode, auth, userEmail, cartId, orders,
                 ordersPc, bootPc, bootSavedVat, loggedOut>>

\* fetchJson of lines 2400-2401 answered
LoginDiscover(ok) ==
  /\ loginPc = "discover"
  /\ loginPc' = "idle"
  /\ IF ok
       THEN /\ oidc' = IF oidc = Null THEN DiscoveredOidc ELSE oidc
            /\ custApi' = IF custApi = Null THEN DiscoveredCustApi ELSE custApi
            /\ LoginOpensBrowser
            /\ UNCHANGED error
       ELSE /\ error' = "Invalid JSON from discovery endpoint"
            /\ UNCHANGED <<oidc, custApi, loginCount, prefs, browserOpen>>
  /\ UNCHANGED <<envVars, addVars, cartVars, cb, deepLinkHandled, tokenRequestSent,
                 exchanged, profVars, listenerRegistered, bootDiscoveryOk, toast, view,
                 booted, vatMode, auth, userEmail, cartId, orders, ordersPc,
                 bootPc, bootSavedVat, loggedOut>>

\* -------------------------------------------------------- deep-link callback
\* httpPostForm (lines 242-284): does the reply make it throw
HttpPostFormThrows(native, reply) ==
  \/ reply.net = "fail"
  \/ IF native
       THEN \/ reply.status # 0 /\ reply.status >= 400
            \/ Truthy(Field(reply.body, "error"))
       ELSE ~(reply.status >= 200 /\ reply.status <= 299)

TokenReplies ==
  { [net |-> "ok", status |-> 200,
     body |-> [access_token |-> "at1", id_token |-> "idtA", refresh_token |-> "rt1"]],
    [net |-> "ok", status |-> 200, body |-> [access_token |-> "at2"]],
    [net |-> "ok", status |-> 200, body |-> [error |-> "invalid_grant"]],
    [net |-> "ok", status |-> 400, body |-> [error |-> "invalid_request"]],
    [net |-> "ok", status |-> 200, body |-> [token_type |-> "bearer"]],
    [net |-> "fail", status |-> 0, body |-> [token_type |-> "none"]] }

\* const authObj = { access_token, id_token, refresh_token, expires_at }
AuthObj(json) ==
  [access_token |-> Field(json, "access_token"),
   id_token |-> Field(json, "id_token"),
   refresh_token |-> Field(json, "refresh_token"),
   expires_at |-> IF Field(json, "access_token") = "at1" THEN "exp1" ELSE "exp2"]

\* a callback that persisted the auth object without its refresh token
StoredAuthNoRefresh(authObj) ==
  JsonStringify([authObj EXCEPT !.refresh_token = Undefined])

\* Preferences.set({ key: K.AUTH, value: JSON.stringify(authObj) })  (line 2466)
StoredAuth(authObj) == JsonStringify(authObj)

\* deep links the OS can deliver to the listener
UrlEvents ==
  { [redirect |-> FALSE, code |-> "", state |-> -1, err |-> FALSE],
    [redirect |-> TRUE, code |-> "", state |-> -1, err |-> TRUE],
    [redirect |-> TRUE, code |-> "", state |-> -1, err |-> FALSE] }
  \cup { [redirect |-> TRUE, code |-> "c1", state |-> st, err |-> FALSE] :
           st \in -1 .. MaxLogins }

\* a listener that did not raise the flag
HandledOnAcceptNever == FALSE

\* deepLinkHandledRef.current = true   (line 1758)
HandledOnAccept == TRUE

\* The listener of lines 1747-1777 up to the first network await of
\* handleOAuthCallback (fetchJson, because oidc of the first render is null).
AppUrlOpen(ev) ==
  /\ listenerRegistered
  /\ cb.pc = "idle" \/ ~ev.redirect \/ deepLinkHandled
  /\ IF ~ev.redirect \/ deepLinkHandled
       THEN \* return; finally Browser.close()
            /\ browserOpen' = FALSE
            /\ UNCHANGED <<cb, deepLinkHandled, error>>
       ELSE LET pkce == prefs[K.PKCE]
                failure ==
                  IF ev.err THEN "access_denied"
                  ELSE IF ev.code = "" THEN "Missing authorization code"
                  ELSE IF ~pkce.has
                    THEN "Missing PKCE verifier (login session expired)"
                  ELSE IF ev.state # -1 /\ pkce.val.state # ev.state
                    THEN "State mismatch (possible stale login)"
                  ELSE ""
            IN IF failure # ""
                 THEN /\ error' = failure
                      /\ deepLinkHandled' = FALSE
                      /\ browserOpen' = FALSE
                      /\ UNCHANGED cb
                 ELSE /\ deepLinkHandled' = HandledOnAccept
                      /\ cb' = [pc |-> IF InitOidc = Null THEN "oidc" ELSE "token",
                                code |-> ev.code, state |-> ev.state,
                                verifier |-> pkce.val.verifier, ok |-> FALSE]
                      /\ UNCHANGED <<error, browserOpen>>
  /\ UNCHANGED <<envVars, addVars, cartVars, loginPc, loginCount, tokenRequestSent,
                 exchanged, profVars, discVars, toast, view, prefs, booted, vatMode, auth,
                 userEmail, cartId, orders, ordersPc, bootPc, bootSavedVat,
                 loggedOut>>

\* fetchJson(OIDC_CONFIG_URL) of line 2440 answered; on success the token
\* request of line 2448 is sent.
CbOidc(ok) ==
  /\ cb.pc = "oidc"
  /\ IF ok
       THEN /\ oidc' = DiscoveredOidc
            /\ tokenRequestSent' = TRUE
            /\ cb' = [cb EXCEPT !.pc = "token"]
            /\ UNCHANGED <<error, deepLinkHandled>>
       ELSE /\ error' = "Invalid JSON from discovery endpoint"
            /\ deepLinkHandled' = FALSE
            /\ cb' = [cb EXCEPT !.pc = "closing"]
            /\ UNCHANGED <<oidc, tokenRequestSent>>
  /\ UNCHANGED <<envVars, addVars, cartVars, loginPc, loginCount, browserOpen,
                 exchanged, profVars, custApi, listenerRegistered, bootDiscoveryOk, toast, view,
                 prefs, booted, vatMode, auth, userEmail, cartId, orders,
                 ordersPc, bootPc, bootSavedVat, loggedOut>>

\* a callback that left acefixings_pkce in place after the exchange
PkceKeptAfterExchange(p) == p

\* await Preferences.remove({ key: K.PKCE })   (line 2467)
PkceAfterExchange(p) == PrefRemove(p, K.PKCE)

\* Token request answered: lines 2456-2476, or the catch of line 1769.
CbToken(reply) ==
  /\ cb.pc = "token"
  /\ LET authObj == AuthObj(reply.body)
         success == ~HttpPostFormThrows(isNative, reply)
                    /\ Truthy(authObj.access_token)
         email == JwtEmail(authObj.id_token)
     IN IF success
          THEN /\ auth' = authObj
               /\ prefs' = PkceAfterExchange(PrefSet(prefs, K.AUTH, StoredAuth(authObj)))
               /\ exchanged' = Append(exchanged, cb.verifier)
               /\ userEmail' = IF email # "" THEN email ELSE userEmail
               \* loadCustomerProfile of the first render: closure custApi
               /\ profileInvoked' = TRUE
               /\ profileQuerySent' = (profileQuerySent \/ LcpSendsQuery(InitCustApi))
               /\ toast' = "Logged in"
               /\ view' = "home"
               /\ loggedOut' = FALSE
               /\ cb' = [cb EXCEPT !.pc = "closing", !.ok = TRUE]
               /\ UNCHANGED <<error, deepLinkHandled>>
          ELSE /\ error' = "Token exchange failed"
               /\ deepLinkHandled' = FALSE
               /\ cb' = [cb EXCEPT !.pc = "closing"]
               /\ UNCHANGED <<auth, prefs, userEmail, profileInvoked, exchanged,
                              profileQuerySent, toast, view, loggedOut>>
  /\ UNCHANGED <<envVars, addVars, cartVars, loginPc, loginCount, browserOpen,
                 tokenRequestSent, userName, isNonVatCustomer, companyAccount,
                 discVars, booted, vatMode, cartId, orders, ordersPc, bootPc,
                 bootSavedVat>>

\* finally { await Browser.close() }   (lines 1772-1776)
CbClose ==
  /\ cb.pc = "closing"
  /\ browserOpen' = FALSE
  /\ cb' = IdleCb
  /\ UNCHANGED <<envVars, addVars, cartVars, loginPc, loginCount, deepLinkHandled,
                 tokenRequestSent, exchanged, profVars, discVars, uiVars, prefs, booted,
                 vatMode, auth, userEmail, cartId, orders, ordersPc, bootPc,
                 bootSavedVat, loggedOut>>

\* ------------------------------------------------------------ specification
\* The App component; the cart button is left to SpecCart.
Next ==
  \/ Mount
  \/ BootReadPrefs
  \/ \E ok \in BOOLEAN : BootDiscover(ok)
  \/ \E ok \in BOOLEAN : BootCollections(ok)
  \/ \E ok \in BOOLEAN : EnsureCreate(ok)
  \/ \E ok \in BOOLEAN : EnsureFetchNew(ok)
  \/ NavOrders
  \/ \E r \in OrdersReplies : OrdersReply(r)
  \/ NavAccount
  \/ Logout
  \/ StartLogin
  \/ \E ok \in BOOLEAN : LoginDiscover(ok)
  \/ \E ev \in UrlEvents : AppUrlOpen(ev)
  \/ \E ok \in BOOLEAN : CbOidc(ok)
  \/ \E r \in TokenReplies : CbToken(r)
  \/ CbClose

Spec == Init /\ [][Next]_vars

\* Boot, the cart button and the add-to-cart buttons
NextCart ==
  \/ Mount
  \/ BootReadPrefs
  \/ \E ok \in BOOLEAN : BootDiscover(ok)
  \/ \E ok \in BOOLEAN : BootCollections(ok)
  \/ \E ok \in BOOLEAN : EnsureFetchStored(ok)
  \/ \E ok \in BOOLEAN : EnsureCreate(ok)
  \/ \E ok \in BOOLEAN : EnsureFetchNew(ok)
  \/ OpenCart
  \/ ProductAdd
  \/ QuickAdd
  \/ \E ok \in BOOLEAN : BareFetchStored(ok)
  \/ \E ok \in BOOLEAN : BareCreate(ok)
  \/ \E ok \in BOOLEAN : BareFetchNew(ok)
  \/ \E ok \in BOOLEAN : LinesAdd(ok)
  \/ \E ok \in BOOLEAN : Refresh(ok)

SpecCart == Init /\ [][NextCart]_vars

\* ------------------------------------------ loadCustomerProfile, on its own
MixedCaseTag == <<"V", "A", "T", "-", "V", "e", "r", "i", "f", "i", "e", "d">>
TradeTag == <<"t", "r", "a", "d", "e">>
TagPool == {VatVerifiedTag, MixedCaseTag, TradeTag}
TagLists == UNION { [1 .. n -> TagPool] : n \in 0 .. MaxTags }

Customers ==
  { [firstName |-> f, lastName |-> l, email |-> e, tags |-> t] :
      f \in {"", "Ann"}, l \in {"", "Lee"}, e \in {"", "a@x.com"}, t \in TagLists }

CustomerReplies ==
  { [net |-> "fail", status |-> 0, errors |-> FALSE, customer |-> Null],
    [net |-> "ok", status |-> 401, errors |-> FALSE, customer |-> Null],
    [net |-> "ok", status |-> 200, errors |-> TRUE, customer |-> Null],
    [net |-> "ok", status |-> 200, errors |-> FALSE, customer |-> Null] }
  \cup { [net |-> "ok", status |-> 200, errors |-> FALSE, customer |-> c] :
           c \in Customers }

\* A logged-in app after boot; the invocation is given the custApi of the
\* render its function was created in, and the reply the API will give.
ProfileInit ==
  /\ isNative \in BOOLEAN
  /\ vatMode \in {"inc", "ex"}
  /\ prefs = [k \in Keys |->
                CASE k = K.VAT_MODE -> Entry(vatMode)
                  [] k = K.AUTH -> Entry(JsonStringify(AuthMin))
                  [] OTHER -> Absent]
  /\ prevPrefs = prefs
  /\ serverCarts = {} /\ nextCart = 1
  /\ booted = TRUE /\ error = "" /\ toast = ""
  /\ auth = JsonStringify(AuthMin)
  /\ userEmail = "" /\ userName = "" /\ isNonVatCustomer = FALSE
  /\ view = "home" /\ cartId = InitCartId /\ cart = Null /\ orders = <<>>
  /\ companyAccount = Null
  /\ oidc = DiscoveredOidc /\ custApi = DiscoveredCustApi
  /\ deepLinkHandled = FALSE /\ listenerRegistered = isNative
  /\ browserOpen = FALSE
  /\ bootPc = "done" /\ bootSavedVat = Absent /\ bootDiscoveryOk = TRUE
  /\ loginPc = "idle" /\ loginCount = 0 /\ cb = IdleCb /\ ordersPc = "idle"
  /\ ens = IdleEns /\ tokenRequestSent = FALSE /\ exchanged = <<>>
  /\ profileInvoked = FALSE
  /\ profileQuerySent = FALSE /\ bootCartCreate = FALSE /\ loggedOut = FALSE
  /\ regLoading = FALSE /\ regCall = IdleRegCall /\ vatSubmitted = {}
  /\ bare = IdleBare /\ linesIn = {} /\ net = <<>>
  /\ px = IdlePx /\ vat = IdleVat /\ reg = IdleReg /\ pf = IdlePf
  /\ \E c \in {Null, DiscoveredCustApi}, r \in CustomerReplies :
       lcp = [pc |-> "call", closure |-> c, reply |-> r, vatBefore |-> vatMode,
              sent |-> FALSE, result |-> Null]

\* loadCustomerProfile up to the await of customerApiGraphql (lines 1344-1353,
\* 1296-1313): without a url it throws at once and null is returned.
LcpCall ==
  /\ lcp.pc = "call"
  /\ profileInvoked' = TRUE
  /\ IF LcpSendsQuery(lcp.closure)
       THEN /\ lcp' = [lcp EXCEPT !.pc = "await", !.sent = TRUE]
            /\ profileQuerySent' = TRUE
       ELSE /\ lcp' = [lcp EXCEPT !.pc = "done", !.result = Null]
            /\ UNCHANGED profileQuerySent
  /\ UNCHANGED <<isNative, prevPrefs, px, vat, reg, pf, regVars, addVars, cartVars, loginVars, userName,
                 isNonVatCustomer, companyAccount, discVars, uiVars, prefs,
                 booted, vatMode, auth, userEmail, cartId, orders, ordersPc,
                 bootPc, bootSavedVat, loggedOut>>

\* The rest of loadCustomerProfile (lines 1355-1434)
LcpReply ==
  /\ lcp.pc = "await"
  /\ IF CustomerApiThrows(isNative, lcp.reply)
       THEN /\ lcp' = [lcp EXCEPT !.pc = "done", !.result = Null]
            /\ UNCHANGED <<userEmail, userName, companyAccount, vatMode, toast,
                           isNonVatCustomer, prefs>>
       ELSE LET c == CustomerOf(lcp.reply)
                fullName == FullName(c.firstName, c.lastName)
                account == CompanyAccountFor(c)
                newVat == IF account.verified THEN "ex" ELSE vatMode
                profile == JsonStringify([firstName |-> c.firstName,
                                          lastName |-> c.lastName,
                                          email |-> c.email,
                                          fullName |-> fullName,
                                          isNonVat |-> "false"])
            IN /\ userEmail' = IF c.email # "" THEN c.email ELSE userEmail
               /\ userName' = IF fullName # "" THEN fullName ELSE userName
               /\ companyAccount' = account
               /\ vatMode' = newVat
               /\ toast' = IF account.verified
                             THEN "Tax exempt account verified - showing Ex-VAT prices"
                             ELSE toast
               /\ isNonVatCustomer' = (account.verified /\ isNonVatCustomer)
               /\ prefs' = PersistEffects(
                             IF IsNonVatDeclared
                               THEN PrefSet(prefs, K.PROFILE, profile) ELSE prefs,
                             vatMode, newVat, cartId, cartId)
               /\ lcp' = [lcp EXCEPT !.pc = "done",
                            !.result = IF IsNonVatDeclared
                                         THEN [fullName |-> fullName, email |-> c.email]
                                         ELSE Null]
  /\ UNCHANGED <<isNative, prevPrefs, px, vat, reg, pf, regVars, addVars, cartVars, loginVars, profileInvoked,
                 profileQuerySent, discVars, view, error, booted, auth, cartId,
                 orders, ordersPc, bootPc, bootSavedVat, loggedOut>>

NextProfile == LcpCall \/ LcpReply

SpecProfile == ProfileInit /\ [][NextProfile]_vars

\* ------------------------------------ Netlify proxy (netlify/functions/shopify.js)
HttpMethods == {"OPTIONS", "POST", "GET"}

\* event.body as text
BodyTexts == {"", "{", "null", "5", "{}", "{query:''}", "{query:'q'}",
              "{query:'q',variables:{}}"}

\* JSON.parse: throws, or gives null, a number, or an object
JsonParseBody(text) ==
  CASE text = "{" -> [throws |-> TRUE, kind |-> "none", query |-> Undefined]
    [] text = "null" -> [throws |-> FALSE, kind |-> "null", query |-> Undefined]
    [] text = "5" -> [throws |-> FALSE, kind |-> "number", query |-> Undefined]
    [] text = "{}" -> [throws |-> FALSE, kind |-> "object", query |-> Undefined]
    [] text = "{query:''}" -> [throws |-> FALSE, kind |-> "object", query |-> ""]
    [] OTHER -> [throws |-> FALSE, kind |-> "object", query |-> "q"]

\* process.env.SHOPIFY_STOREFRONT_TOKEN
EnvTokens == {Undefined, "", "shpat"}

UpstreamReplies ==
  { [net |-> "fail", status |-> 0, json |-> FALSE],
    [net |-> "ok", status |-> 200, json |-> TRUE],
    [net |-> "ok", status |-> 200, json |-> FALSE],
    [net |-> "ok", status |-> 201, json |-> TRUE],
    [net |-> "ok", status |-> 429, json |-> TRUE],
    [net |-> "ok", status |-> 502, json |-> FALSE] }

\* no answer of Shopify received (yet)
NoUpstream == [net |-> "none", status |-> 0, json |-> FALSE]

\* The handler is stateless; the app part of the state is held fixed.
ProxyInit ==
  /\ AppInit
  /\ ~isNative
  /\ prefs = [k \in Keys |-> Absent]
  /\ lcp = IdleLcp /\ vat = IdleVat /\ reg = IdleReg /\ pf = IdlePf
  /\ \E m \in HttpMethods, b \in BodyTexts, t \in EnvTokens :
       px = [pc |-> "start", httpMethod |-> m, body |-> b, token |-> t,
             upstreamCalls |-> 0, responses |-> 0, status |-> 0,
             ok |-> "none", cors |-> FALSE, payload |-> "none",
             upstream |-> NoUpstream]

\* reply(statusCode, obj): always with the CORS headers (lines 2-12)
Reply(p, statusCode, okField, payload) ==
  [p EXCEPT !.pc = "replied", !.responses = p.responses + 1,
            !.status = statusCode, !.ok = okField, !.cors = TRUE,
            !.payload = payload]

\* Lines 14-50: validation up to the fetch.  Destructuring JSON null throws
\* a TypeError, which the outer catch of line 65 turns into a 500.
ProxyHandle ==
  /\ px.pc = "start"
  /\ LET parsed == JsonParseBody(IF px.body = "" THEN "{}" ELSE px.body)
     IN px' = IF px.httpMethod = "OPTIONS" THEN Reply(px, 200, "true", "ok")
              ELSE IF px.httpMethod # "POST" THEN Reply(px, 405, "false", "Use POST")
              ELSE IF parsed.throws THEN Reply(px, 400, "false", "Invalid JSON body")
              ELSE IF parsed.kind = "null" THEN Reply(px, 500, "false", "TypeError")
              ELSE IF ~Truthy(parsed.query) THEN Reply(px, 400, "false", "Missing query")
              ELSE IF ~Truthy(px.token)
                THEN Reply(px, 500, "false", "Missing SHOPIFY_STOREFRONT_TOKEN env var")
              ELSE [px EXCEPT !.pc = "fetching", !.upstreamCalls = px.upstreamCalls + 1]
  /\ UNCHANGED <<appVars, lcp, vat, reg, pf>>

\* res.ok of fetch
ResOk(status) == status >= 200 /\ status <= 299

\* a handler that answered every upstream failure with 502
UpstreamErrorStatusFixed(r) == 502

\* reply(res.status, { ok: false, ... })   (line 61)
UpstreamErrorStatus(r) == r.status

\* Lines 52-66: the upstream answer is passed on.  A body that is not JSON
\* is passed on as { raw: text }.
ProxyUpstream(r) ==
  /\ px.pc = "fetching"
  /\ px' = LET p == [px EXCEPT !.upstream = r]
           IN IF r.net = "fail" THEN Reply(p, 500, "false", "fetch failed")
              ELSE IF ~ResOk(r.status)
                THEN Reply(p, UpstreamErrorStatus(r), "false", "Shopify HTTP")
              ELSE Reply(p, 200, "upstream", IF r.json THEN "parsed" ELSE "raw")
  /\ UNCHANGED <<appVars, lcp, vat, reg, pf>>

NextProxy == ProxyHandle \/ \E r \in UpstreamReplies : ProxyUpstream(r)

SpecProxy == ProxyInit /\ [][NextProxy]_vars

\* --------------------------- Shopify Admin GraphQL, as both endpoints call it
\* What fetch gives graphqlRequest: a rejected request, a non-2xx answer, a
\* 200 with top-level errors, a 200 whose payload has userErrors, and a clean
\* 200 whose payload holds a customer (search edge, created customer) or not.
AdminReplies ==
  { [net |-> "fail", status |-> 0, gqlErrors |-> FALSE, userErrors |-> FALSE, found |-> FALSE],
    [net |-> "ok", status |-> 503, gqlErrors |-> FALSE, userErrors |-> FALSE, found |-> FALSE],
    [net |-> "ok", status |-> 200, gqlErrors |-> TRUE, userErrors |-> FALSE, found |-> FALSE],
    [net |-> "ok", status |-> 200, gqlErrors |-> FALSE, userErrors |-> TRUE, found |-> FALSE],
    [net |-> "ok", status |-> 200, gqlErrors |-> FALSE, userErrors |-> FALSE, found |-> FALSE],
    [net |-> "ok", status |-> 200, gqlErrors |-> FALSE, userErrors |-> FALSE, found |-> TRUE] }

NoAdminReply ==
  [net |-> "none", status |-> 0, gqlErrors |-> FALSE, userErrors |-> FALSE, found |-> FALSE]

\* graphqlRequest throws on a rejected fetch, on !response.ok and on
\* data.errors; otherwise it returns the payload.
GraphqlRequestThrows(r) == r.net = "fail" \/ ~ResOk(r.status) \/ r.gqlErrors

\* ----------------------------- submitVatVerification (src/unnamed/part_000)
\* req.body when the request carried none
NoBody == [undefined |-> TRUE]

VatFields == {"customerEmail", "businessName", "country", "vatNumber"}

VatBodies ==
  {NoBody} \cup
  { [customerEmail |-> e, businessName |-> b, country |-> c, vatNumber |-> v] :
      e \in {"", "a@x.com"}, b \in {Undefined, "Ace"}, c \in {"", "IE"},
      v \in {Undefined, "IE1"} }

\* process.env.SHOPIFY_ADMIN_API_TOKEN
AdminTokens == {Undefined, "shpat"}

VatInit ==
  /\ AppInit
  /\ ~isNative
  /\ prefs = [k \in Keys |-> Absent]
  /\ lcp = IdleLcp /\ px = IdlePx /\ reg = IdleReg /\ pf = IdlePf
  /\ \E m \in {"POST", "GET"}, b \in VatBodies, t \in AdminTokens :
       vat = [pc |-> "start", method |-> m, body |-> b, token |-> t,
              requests |-> <<>>, responses |-> 0, status |-> 0,
              success |-> FALSE, searchReply |-> NoAdminReply,
              metaReply |-> NoAdminReply, tagReply |-> NoAdminReply]

\* res.status(code).json(...)
VatRespond(v, code, success) ==
  [v EXCEPT !.pc = "replied", !.responses = v.responses + 1,
            !.status = code, !.success = success]

\* Lines 14-58: method, fields, token, then the customer search is sent.
\* Destructuring a missing body throws a TypeError inside the try block.
VatHandle ==
  /\ vat.pc = "start"
  /\ vat' = IF vat.method # "POST" THEN VatRespond(vat, 405, FALSE)
            ELSE IF vat.body = NoBody THEN VatRespond(vat, 500, FALSE)
            ELSE IF \E f \in VatFields : ~Truthy(Field(vat.body, f))
              THEN VatRespond(vat, 400, FALSE)
            ELSE IF ~Truthy(vat.token) THEN VatRespond(vat, 500, FALSE)
            ELSE [vat EXCEPT !.pc = "search", !.requests = <<"search">>]
  /\ UNCHANGED <<appVars, lcp, px, reg, pf>>

\* Lines 60-115: the search answered; 404 without a customer, else the
\* metafieldsSet mutation is sent.  A throw of graphqlRequest goes to the
\* catch of line 170.
VatSearch(r) ==
  /\ vat.pc = "search"
  /\ vat' = LET v == [vat EXCEPT !.searchReply = r]
            IN IF GraphqlRequestThrows(r) THEN VatRespond(v, 500, FALSE)
               ELSE IF ~r.found THEN VatRespond(v, 404, FALSE)
               ELSE [v EXCEPT !.pc = "metafields",
                              !.requests = Append(v.requests, "metafieldsSet")]
  /\ UNCHANGED <<appVars, lcp, px, reg, pf>>

\* a handler that only logged the userErrors of metafieldsSet
VatMetafieldsFailedOnThrowOnly(r) == GraphqlRequestThrows(r)

\* Lines 85-128: graphqlRequest threw, or the mutation returned userErrors
VatMetafieldsFailed(r) == GraphqlRequestThrows(r) \/ r.userErrors

\* Lines 117-156: metafieldsSet answered; a failure throws, else tagsAdd is
\* sent.
VatMetafields(r) ==
  /\ vat.pc = "metafields"
  /\ vat' = LET v == [vat EXCEPT !.metaReply = r]
            IN IF VatMetafieldsFailed(r)
                 THEN VatRespond(v, 500, FALSE)
                 ELSE [v EXCEPT !.pc = "tags",
                                !.requests = Append(v.requests, "tagsAdd")]
  /\ UNCHANGED <<appVars, lcp, px, reg, pf>>

\* Lines 158-175: tagsAdd answered; its userErrors are only logged, but a
\* throw of graphqlRequest reaches the catch of line 170.
VatTags(r) ==
  /\ vat.pc = "tags"
  /\ vat' = LET v == [vat EXCEPT !.tagReply = r]
            IN IF GraphqlRequestThrows(r) THEN VatRespond(v, 500, FALSE)
               ELSE VatRespond(v, 200, TRUE)
  /\ UNCHANGED <<appVars, lcp, px, reg, pf>>

NextVat ==
  \/ VatHandle
  \/ \E r \in AdminReplies : VatSearch(r)
  \/ \E r \in AdminReplies : VatMetafields(r)
  \/ \E r \in AdminReplies : VatTags(r)

SpecVat == VatInit /\ [][NextVat]_vars

\* --------------------------------- registerCustomer (src/unnamed/part_001)
RegBodies ==
  {NoBody} \cup
  { [email |-> e, vatNumber |-> v] : e \in {"", "a@x.com"}, v \in {Undefined, "IE1"} }

RegisterInit ==
  /\ AppInit
  /\ ~isNative
  /\ prefs = [k \in Keys |-> Absent]
  /\ lcp = IdleLcp /\ px = IdlePx /\ vat = IdleVat /\ pf = IdlePf
  /\ \E m \in HttpMethods, b \in RegBodies, t \in AdminTokens :
       reg = [pc |-> "start", method |-> m, body |-> b, token |-> t,
              requests |-> <<>>, responses |-> 0, status |-> 0,
              success |-> FALSE, cors |-> FALSE,
              customerId |-> Undefined, isNewCustomer |-> FALSE,
              replyIsNew |-> "none",
              searchReply |-> NoAdminReply, createReply |-> NoAdminReply,
              inviteReply |-> NoAdminReply]

\* res.status(code).json({ error }) or .end()
RegRespond(v, code) ==
  [v EXCEPT !.pc = "replied", !.responses = v.responses + 1, !.status = code]

\* Lines 488-495: the success response carries customerId and isNewCustomer
RegSucceed(v) ==
  [v EXCEPT !.pc = "replied", !.responses = v.responses + 1, !.status = 200,
            !.success = TRUE,
            !.replyIsNew = IF v.isNewCustomer THEN "true" ELSE "false"]

RegSend(v, pc, name) == [v EXCEPT !.pc = pc, !.requests = Append(v.requests, name)]

\* Lines 458-495: the invite is sent for a new customer only
RegAfterVat(v) ==
  IF v.isNewCustomer THEN RegSend(v, "invite", "customerSendAccountInviteEmail")
  ELSE RegSucceed(v)

\* Lines 377-426: without an id 500; with a vatNumber the metafields are set
RegAfterCustomer(v) ==
  IF ~Truthy(v.customerId) THEN RegRespond(v, 500)
  ELSE IF Truthy(Field(v.body, "vatNumber")) THEN RegSend(v, "metafields", "metafieldsSet")
  ELSE RegAfterVat(v)

\* Lines 246-308: CORS headers, method, email, token, then the search is sent.
\* Destructuring a missing body throws inside the try block.
RegHandle ==
  /\ reg.pc = "start"
  /\ reg' = LET v == [reg EXCEPT !.cors = TRUE]
            IN IF v.method = "OPTIONS" THEN RegRespond(v, 200)
               ELSE IF v.method # "POST" THEN RegRespond(v, 405)
               ELSE IF v.body = NoBody THEN RegRespond(v, 500)
               ELSE IF ~Truthy(Field(v.body, "email")) THEN RegRespond(v, 400)
               ELSE IF ~Truthy(v.token) THEN RegRespond(v, 500)
               ELSE RegSend(v, "search", "search")
  /\ UNCHANGED <<appVars, lcp, px, vat, pf>>

\* a handler that took the create branch whatever the search returned
RegCustomerExistsNever(r) == FALSE

\* searchResponse?.customers?.edges?.length > 0   (line 313)
RegCustomerExists(r) == r.found

\* Lines 310-362: the search answered
RegSearch(r) ==
  /\ reg.pc = "search"
  /\ reg' = LET v == [reg EXCEPT !.searchReply = r]
            IN IF GraphqlRequestThrows(r) THEN RegRespond(v, 500)
               ELSE IF RegCustomerExists(r)
                 THEN RegAfterCustomer([v EXCEPT !.customerId = "gid1"])
               ELSE RegSend(v, "create", "customerCreate")
  /\ UNCHANGED <<appVars, lcp, px, vat, pf>>

\* Lines 364-379: customerCreate answered
RegCreate(r) ==
  /\ reg.pc = "create"
  /\ reg' = LET v == [reg EXCEPT !.createReply = r]
            IN IF GraphqlRequestThrows(r) THEN RegRespond(v, 500)
               ELSE IF r.userErrors THEN RegRespond(v, 400)
               ELSE RegAfterCustomer(
                      [v EXCEPT !.customerId = IF r.found THEN "gid2" ELSE Undefined,
                                !.isNewCustomer = TRUE])
  /\ UNCHANGED <<appVars, lcp, px, vat, pf>>

\* Lines 428-455: metafieldsSet answered; userErrors are only logged; an
\* existing customer then gets the tag
RegMetafields(r) ==
  /\ reg.pc = "metafields"
  /\ reg' = IF GraphqlRequestThrows(r) THEN RegRespond(reg, 500)
            ELSE IF ~reg.isNewCustomer THEN RegSend(reg, "tags", "tagsAdd")
            ELSE RegAfterVat(reg)
  /\ UNCHANGED <<appVars, lcp, px, vat, pf>>

\* Lines 447-455: tagsAdd answered
RegTags(r) ==
  /\ reg.pc = "tags"
  /\ reg' = IF GraphqlRequestThrows(r) THEN RegRespond(reg, 500)
            ELSE RegAfterVat(reg)
  /\ UNCHANGED <<appVars, lcp, px, vat, pf>>

\* a handler whose invite step was not wrapped in try/catch
RegInviteFailsRequestUncaught(r) == GraphqlRequestThrows(r)

\* try { await graphqlRequest(invite) } catch (e) { console.warn }  (474-485)
RegInviteFailsRequest(r) == FALSE

\* Lines 474-495: the invite answered
RegInvite(r) ==
  /\ reg.pc = "invite"
  /\ reg' = LET v == [reg EXCEPT !.inviteReply = r]
            IN IF RegInviteFailsRequest(r) THEN RegRespond(v, 500)
               ELSE RegSucceed(v)
  /\ UNCHANGED <<appVars, lcp, px, vat, pf>>

NextRegister ==
  \/ RegHandle
  \/ \E r \in AdminReplies : RegSearch(r)
  \/ \E r \in AdminReplies : RegCreate(r)
  \/ \E r \in AdminReplies : RegMetafields(r)
  \/ \E r \in AdminReplies : RegTags(r)
  \/ \E r \in AdminReplies : RegInvite(r)

SpecRegister == RegisterInit /\ [][NextRegister]_vars

\* ------------------------------------------- registration form of the App
\* what the endpoint can answer to the App
RegClientReplies ==
  { [net |-> "fail", status |-> 0, json |-> FALSE, error |-> ""],
    [net |-> "ok", status |-> 200, json |-> TRUE, error |-> ""],
    [net |-> "ok", status |-> 200, json |-> FALSE, error |-> ""],
    [net |-> "ok", status |-> 400, json |-> TRUE, error |-> "Email is required"],
    [net |-> "ok", status |-> 500, json |-> TRUE, error |-> ""] }

\* Create Account button (lines 4552-4559; the form is shown when
\* !auth && !userEmail, the button is inert while regLoading): registerCustomer
\* up to its request (lines 1522-1565).
RegisterCustomer(regEmail, regVatNumber) ==
  /\ booted
  /\ view = "account"
  /\ auth = Null
  /\ userEmail = ""
  /\ ~regLoading
  /\ regCall.pc = "idle"
  /\ regCall.n < MaxRegs
  /\ IF regEmail = ""
       THEN /\ toast' = "Email is required"
            /\ regCall' = [pc |-> "idle", n |-> regCall.n + 1, email |-> regEmail,
                           vatNumber |-> regVatNumber, outcome |-> "missing email"]
            /\ UNCHANGED regLoading
       ELSE /\ regLoading' = TRUE
            /\ regCall' = [pc |-> "await", n |-> regCall.n + 1, email |-> regEmail,
                           vatNumber |-> regVatNumber, outcome |-> "none"]
            /\ UNCHANGED toast
  /\ UNCHANGED <<isNative, prevPrefs, addVars, fnVars, vatSubmitted, cartVars, loginVars,
                 profVars, discVars, view, error, prefs, booted, vatMode, auth,
                 userEmail, cartId, orders, ordersPc, bootPc, bootSavedVat,
                 loggedOut>>

\* a registration that logged the new customer in with the form email
RegisteredUserEmailFromForm(current, regEmail) == regEmail

\* "Clear form - DON'T set userEmail" (line 1591): userEmail after a success
RegisteredUserEmail(current, regEmail) == current

\* registerCustomer after its request (lines 1567-1611)
RegisterReply(r) ==
  /\ regCall.pc = "await"
  /\ regLoading' = FALSE
  /\ LET outcome == IF r.net = "fail" THEN "network error"
                    ELSE IF ~r.json THEN "not JSON"
                    ELSE IF ~ResOk(r.status) THEN "not 2xx"
                    ELSE "success"
     IN /\ regCall' = [regCall EXCEPT !.pc = "idle", !.outcome = outcome]
        /\ toast' = CASE outcome = "network error" -> "Registration failed"
                      [] outcome = "not JSON" -> "Server error. Please try again."
                      [] outcome = "not 2xx" ->
                           IF r.error # "" THEN r.error ELSE "Registration failed"
                      [] OTHER -> "Account created! Check your email"
        /\ vatSubmitted' = IF outcome = "success" /\ regCall.vatNumber # ""
                             THEN vatSubmitted \cup {regCall.email}
                             ELSE vatSubmitted
        /\ userEmail' = IF outcome = "success"
                          THEN RegisteredUserEmail(userEmail, regCall.email)
                          ELSE userEmail
  /\ UNCHANGED <<isNative, prevPrefs, addVars, fnVars, cartVars, loginVars, profVars,
                 discVars, view, error, prefs, booted, vatMode, auth, cartId,
                 orders, ordersPc, bootPc, bootSavedVat, loggedOut>>

\* Boot, the account tab and the registration form
NextRegClient ==
  \/ Mount
  \/ BootReadPrefs
  \/ \E ok \in BOOLEAN : BootDiscover(ok)
  \/ \E ok \in BOOLEAN : BootCollections(ok)
  \/ \E ok \in BOOLEAN : EnsureCreate(ok)
  \/ \E ok \in BOOLEAN : EnsureFetchNew(ok)
  \/ NavAccount
  \/ \E e \in {"", "b@x.com"}, v \in {"", "IE1"} : RegisterCustomer(e, v)
  \/ \E r \in RegClientReplies : RegisterReply(r)

SpecRegClient == Init /\ [][NextRegClient]_vars

\* ===================================================================== claims
AuthFields == {"access_token", "id_token", "refresh_token", "expires_at"}

\* C1: after logout() has completed and before a later successful login, auth
\* is null, orders is empty, userEmail and userName are empty, vatMode is
\* "inc", and the auth, profile and orders-cache entries are absent.
C1_LoggedOutStateIsClean ==
  loggedOut =>
    /\ auth = Null
    /\ orders = <<>>
    /\ userEmail = ""
    /\ userName = ""
    /\ vatMode = "inc"
    /\ ~prefs[K.AUTH].has
    /\ ~prefs[K.PROFILE].has
    /\ ~prefs[K.ORDERS_CACHE].has

\* C2: on web, login is disabled: acefixings_pkce is never written, the
\* browser is never opened, no token request is sent and no appUrlOpen
\* listener is registered; startLogin() shows its toast and sets view to
\* "account".
C2_WebLoginDisabled ==
  /\ [](~isNative =>
          /\ ~prefs[K.PKCE].has
          /\ ~browserOpen
          /\ ~tokenRequestSent
          /\ ~listenerRegistered
          /\ cb.pc = "idle"
          /\ auth = Null)
  /\ [][(~isNative /\ toast' # toast
           /\ toast' = "Login works in the Android app (not on localhost)")
          => (view' = "account" /\ prefs' = prefs /\ auth' = auth
              /\ loginCount' = loginCount)]_vars

C2_Witness ==
  /\ ~isNative
  /\ booted
  /\ toast = "Login works in the Android app (not on localhost)"
  /\ view = "account"

\* C3: when handleOAuthCallback completes successfully, acefixings_auth holds
\* the same access_token, id_token, refresh_token and expires_at as the
\* in-memory auth, acefixings_pkce has been removed, and view is "home".
C3_CallbackPersistsAuth ==
  [][(cb.pc = "token" /\ cb'.pc = "closing" /\ cb'.ok)
       => /\ auth' # Null
          /\ prefs'[K.AUTH].has
          /\ \A f \in AuthFields :
               Field(prefs'[K.AUTH].val, f) = Field(auth', f)
          /\ ~prefs'[K.PKCE].has
          /\ view' = "home"]_vars

C3_Witness ==
  /\ cb.pc = "closing"
  /\ cb.ok
  /\ auth # Null
  /\ Field(auth, "refresh_token") = "rt1"

\* C4: if acefixings_auth held an object with a non-empty access_token when
\* the app started, then at the moment booted becomes true the in-memory auth
\* is that object, whatever the outcome of the other boot steps.
C4_BootRestoresSession ==
  [][(~booted /\ booted' /\ prevPrefs[K.AUTH].has
        /\ Truthy(Field(prevPrefs[K.AUTH].val, "access_token")))
       => auth' = prevPrefs[K.AUTH].val]_vars

\* C5: on native, once boot discovery succeeded, every loadCustomerProfile
\* call made by the boot effect or by the appUrlOpen listener sends the
\* customer query to the discovered endpoint.
C5_ProfileQueryIsSent ==
  (isNative /\ bootDiscoveryOk /\ profileInvoked) => profileQuerySent

\* C6: when the customer query succeeds, loadCustomerProfile writes
\* acefixings_customer_profile with the email and full name and returns a
\* non-null result; it returns null only when the query failed.
C6_ProfileIsPersistedAndReturned ==
  (lcp.pc = "done" /\ lcp.sent /\ ~CustomerApiThrows(isNative, lcp.reply)) =>
    LET c == CustomerOf(lcp.reply)
    IN /\ lcp.result # Null
       /\ prefs[K.PROFILE].has
       /\ Field(prefs[K.PROFILE].val, "email") = c.email
       /\ Field(prefs[K.PROFILE].val, "fullName") = FullName(c.firstName, c.lastName)

\* C7: if acefixings_cart_id held the id of a cart that Shopify still returns
\* and the boot ends with no error set, then when boot ends cartId is that
\* id, the cart state is that cart, and the boot issued no cartCreate.
C7_BootKeepsStoredCart ==
  [][(~booted /\ booted' /\ error' = ""
        /\ prevPrefs[K.CART_ID].has
        /\ prevPrefs[K.CART_ID].val \in serverCarts)
       => /\ cartId' = prevPrefs[K.CART_ID].val
          /\ cart' = [id |-> prevPrefs[K.CART_ID].val]
          /\ ~bootCartCreate']_vars

\* C8: if the previous run left acefixings_vat_mode "ex" or "inc" and no
\* stored profile forces a mode, then when boot ends vatMode is the stored
\* value: the mount effect did not overwrite it before the boot read it.
C8_BootRestoresVatMode ==
  [][(~booted /\ booted'
        /\ prevPrefs[K.VAT_MODE].has
        /\ ~prevPrefs[K.PROFILE].has)
       => vatMode' = prevPrefs[K.VAT_MODE].val]_vars

\* C9: a customer whose tags contain "vat-verified" in any letter case makes
\* vatMode "ex" and companyAccount verified with reverseCharge; a customer
\* without such a tag gets reverseCharge = FALSE and vatMode is unchanged.
C9_VatVerifiedTag ==
  (lcp.pc = "done" /\ lcp.sent /\ ~CustomerApiThrows(isNative, lcp.reply)) =>
    LET tags == CustomerOf(lcp.reply).tags
        tagged == \E i \in 1 .. Len(tags) : ToLowerCase(tags[i]) = VatVerifiedTag
    IN /\ companyAccount # Null
       /\ tagged => /\ vatMode = "ex"
                    /\ companyAccount.verified
                    /\ companyAccount.reverseCharge
       /\ ~tagged => /\ ~companyAccount.reverseCharge
                     /\ vatMode = lcp.vatBefore

C9_Witness ==
  /\ lcp.pc = "done"
  /\ lcp.sent
  /\ lcp.reply.customer # Null
  /\ \E i \in 1 .. Len(lcp.reply.customer.tags) :
       lcp.reply.customer.tags[i] = MixedCaseTag
  /\ \A i \in 1 .. Len(lcp.reply.customer.tags) :
       lcp.reply.customer.tags[i] # VatVerifiedTag
  /\ lcp.vatBefore = "inc"
  /\ vatMode = "ex"
  /\ companyAccount # Null

\* C10: the proxy calls Shopify only for a POST whose body parses as JSON
\* with a non-empty query while the token is set; otherwise it answers
\* without an upstream call: 200 {ok:true} for OPTIONS, 405 for other
\* methods, 400 for an unparsable body or a missing query, 500 for a missing
\* token.
BodyHasQuery(text) == text \in {"{query:'q'}", "{query:'q',variables:{}}"}

C10_ProxyValidatesBeforeUpstream ==
  /\ px.pc # "idle" /\ px.upstreamCalls > 0 =>
       /\ px.httpMethod = "POST"
       /\ BodyHasQuery(px.body)
       /\ px.token \notin {Undefined, ""}
  /\ px.pc = "replied" /\ px.upstreamCalls = 0 =>
       /\ px.httpMethod = "OPTIONS" => px.status = 200 /\ px.ok = "true"
       /\ px.httpMethod = "GET" => px.status = 405
       /\ (px.httpMethod = "POST" /\ ~BodyHasQuery(px.body)) => px.status = 400
       /\ (px.httpMethod = "POST" /\ BodyHasQuery(px.body)) => px.status = 500

\* C11: the proxy passes upstream errors on as status codes: a non-2xx answer
\* with status s gives status s and ok:false, a 2xx answer gives 200 with the
\* upstream body (parsed, or carried as raw text when it is not JSON); the
\* handler returns at most one response, every response has the CORS
\* headers, and a thrown error (rejected fetch, TypeError) becomes a 500.
C11_ProxyPropagatesStatus ==
  /\ px.pc # "idle" => px.responses <= 1
  /\ px.pc = "replied" =>
       /\ px.responses = 1
       /\ px.cors
       /\ (px.upstream.net = "ok" /\ ~ResOk(px.upstream.status)) =>
            (px.status = px.upstream.status /\ px.ok = "false")
       /\ (px.upstream.net = "ok" /\ ResOk(px.upstream.status)) =>
            /\ px.status = 200
            /\ px.ok = "upstream"
            /\ px.payload = IF px.upstream.json THEN "parsed" ELSE "raw"
       /\ px.upstream.net = "fail" => (px.status = 500 /\ px.ok = "false")
       /\ (px.httpMethod = "POST" /\ px.body = "null") => px.status = 500

C11_Witness ==
  /\ px.pc = "replied"
  /\ px.upstream.net = "ok"
  /\ px.upstream.status = 429
  /\ px.status = 429
  /\ px.ok = "false"

VatBodyComplete(b) == b # NoBody /\ \A f \in VatFields : Truthy(Field(b, f))

\* C12: submitVatVerification validates before touching Shopify: a non-POST
\* method gives 405, a body missing any of the four fields gives 400, a
\* missing admin token gives 500, each without any Admin request.
C12_VatValidatesFirst ==
  /\ (vat.pc # "idle" /\ vat.requests # <<>>) =>
       (vat.method = "POST" /\ VatBodyComplete(vat.body) /\ Truthy(vat.token))
  /\ (vat.pc = "replied" /\ vat.method # "POST") =>
       (vat.status = 405 /\ vat.requests = <<>>)
  /\ (vat.pc = "replied" /\ vat.method = "POST" /\ ~VatBodyComplete(vat.body)) =>
       (vat.status = 400 /\ vat.requests = <<>>)
  /\ (vat.pc = "replied" /\ vat.method = "POST" /\ VatBodyComplete(vat.body)
        /\ ~Truthy(vat.token)) =>
       (vat.status = 500 /\ vat.requests = <<>>)

VatOrder == <<"search", "metafieldsSet", "tagsAdd">>

\* the requests are issued in the fixed order, each only after the previous
\* one returned cleanly
VatRequestsInOrder ==
  /\ vat.pc # "idle" =>
       /\ Len(vat.requests) <= 3
       /\ \A i \in 1 .. Len(vat.requests) : vat.requests[i] = VatOrder[i]
       /\ Len(vat.requests) >= 2 =>
            (~GraphqlRequestThrows(vat.searchReply) /\ vat.searchReply.found)
       /\ Len(vat.requests) = 3 =>
            (~GraphqlRequestThrows(vat.metaReply) /\ ~vat.metaReply.userErrors)
  /\ (vat.pc = "replied" /\ vat.requests = <<"search", "metafieldsSet">>) =>
       vat.status = 500

\* C13 as stated: search, then metafieldsSet, then tagsAdd; metafieldsSet
\* only after the search found a customer, otherwise 404 and no mutation;
\* tagsAdd only after metafieldsSet returned without errors or userErrors,
\* otherwise 500 and no tag.
C13_VatRequestOrder ==
  /\ VatRequestsInOrder
  /\ (vat.pc = "replied" /\ vat.requests = <<"search">>) => vat.status = 404

\* C13 amended: when the search ends without a customer no mutation is
\* issued and the response is 404 if the search returned no customer, 500 if
\* the search request itself failed.
C13_VatRequestOrderAmended ==
  /\ VatRequestsInOrder
  /\ (vat.pc = "replied" /\ vat.requests = <<"search">>) =>
       vat.status = IF GraphqlRequestThrows(vat.searchReply) THEN 500 ELSE 404

C13_Witness ==
  /\ vat.pc = "replied"
  /\ vat.requests = <<"search">>
  /\ vat.searchReply.net = "ok"
  /\ vat.searchReply.status = 503
  /\ vat.status = 500

\* C14: once metafieldsSet has succeeded the response is 200 with
\* success:true whatever the outcome of tagsAdd (userErrors, GraphQL errors
\* or a non-2xx status).
C14_TagFailureIsNotFatal ==
  (vat.pc = "replied" /\ Len(vat.requests) = 3) =>
     (vat.status = 200 /\ vat.success)

\* number of requests of a kind issued so far
RegCount(name) == Cardinality({i \in 1 .. Len(reg.requests) : reg.requests[i] = name})

RegSearchReturned == reg.pc \notin {"idle", "start", "search"}
                     /\ ~GraphqlRequestThrows(reg.searchReply)

\* C15: registerCustomer creates or updates: when the search returns a
\* customer no customerCreate is issued and a response that reports
\* isNewCustomer reports false; when it returns none exactly one
\* customerCreate is issued, and if that returns userErrors the response is
\* 400 and no metafield, tag or invite request follows.
C15_CreateOrUpdate ==
  /\ (RegSearchReturned /\ reg.searchReply.found) =>
       /\ RegCount("customerCreate") = 0
       /\ reg.replyIsNew # "true"
       /\ (reg.pc = "replied" /\ reg.status = 200) => reg.replyIsNew = "false"
  /\ (RegSearchReturned /\ ~reg.searchReply.found) =>
       /\ RegCount("customerCreate") = 1
       /\ (reg.pc # "create" /\ ~GraphqlRequestThrows(reg.createReply)
             /\ reg.createReply.userErrors) =>
            /\ reg.pc = "replied"
            /\ reg.status = 400
            /\ reg.requests = <<"search", "customerCreate">>

C15_Witness ==
  /\ reg.pc = "replied"
  /\ reg.searchReply.found
  /\ reg.status = 200
  /\ reg.replyIsNew = "false"
  /\ reg.requests = <<"search", "metafieldsSet", "tagsAdd">>

\* C16: the invite email is sent only for a newly created customer, once,
\* after the create step and any metafield step with nothing after it, and
\* whatever the invite request answers the response is 200 with success:true.
C16_InviteOnlyForNewCustomer ==
  RegCount("customerSendAccountInviteEmail") > 0 =>
    /\ RegCount("customerSendAccountInviteEmail") = 1
    /\ reg.requests[Len(reg.requests)] = "customerSendAccountInviteEmail"
    /\ reg.requests[2] = "customerCreate"
    /\ RegCount("tagsAdd") = 0
    /\ ~reg.searchReply.found
    /\ ~GraphqlRequestThrows(reg.createReply) /\ reg.createReply.found
    /\ reg.isNewCustomer
    /\ reg.pc = "replied" =>
         (reg.status = 200 /\ reg.success /\ reg.replyIsNew = "true")

C16_Witness ==
  /\ reg.pc = "replied"
  /\ reg.requests = <<"search", "customerCreate", "metafieldsSet",
                      "customerSendAccountInviteEmail">>
  /\ GraphqlRequestThrows(reg.inviteReply)
  /\ reg.status = 200
  /\ reg.success

\* C17: registerCustomer() never logs the user in: whatever its outcome
\* (missing email, network error, non-JSON reply, non-2xx, success) its steps
\* leave auth, userEmail and the stored auth unchanged, and regLoading is
\* false when the operation ends.
C17_RegisterNeverLogsIn ==
  [][regCall' # regCall =>
       /\ auth' = auth
       /\ userEmail' = userEmail
       /\ prefs'[K.AUTH] = prefs[K.AUTH]
       /\ regCall'.pc = "idle" =>
            (~regLoading' /\ regCall'.outcome # "none")]_vars

C17_Witness ==
  /\ regCall.pc = "idle"
  /\ regCall.outcome = "success"
  /\ regCall.email = "b@x.com"
  /\ ~regLoading
  /\ auth = Null
  /\ userEmail = ""

InFlight == cb.pc \in {"oidc", "token"}

\* C18: the token request is sent, and auth and acefixings_auth are changed
\* by a callback, only when the state parameter of the callback equals the
\* state stored in acefixings_pkce; a callback whose state is different or
\* absent causes no token exchange.
C18_StateMustMatch ==
  /\ [][(cb.pc # "token" /\ cb'.pc = "token") =>
          (prefs[K.PKCE].has /\ cb'.state = prefs[K.PKCE].val.state)]_vars
  /\ [][(cb.pc = "token" /\ (auth' # auth \/ prefs'[K.AUTH] # prefs[K.AUTH])) =>
          (prefs[K.PKCE].has /\ cb.state = prefs[K.PKCE].val.state)]_vars

C21_ListenerRegisteredOnceBooted ==
  (isNative /\ booted) => listenerRegistered

\* C25: logout wins over an in-flight orders fetch: when the response of a
\* loadOrdersFromApi that was started before logout() arrives after logout()
\* completed, orders stays empty and acefixings_orders_cache stays absent.
C25_LogoutWinsOverOrdersFetch ==
  [][(loggedOut /\ ordersPc = "await" /\ ordersPc' = "idle") =>
       (orders' = <<>> /\ ~prefs'[K.ORDERS_CACHE].has)]_vars

\* ------------------------------------------------- httpPostForm, on its own
\* `json || {}` of an absent or unparsable body
EmptyObject == [empty |-> TRUE]

PostFormStatuses == {200, 201, 400, 401, 403, 500, 503}

\* safeJsonParse of the reply text: the parsed object, or Null for a body
\* that is empty or is not JSON
PostFormBodies ==
  { [access_token |-> "at1", id_token |-> "idtA", refresh_token |-> "rt1"],
    [access_token |-> "at2"],
    [error |-> "invalid_grant"],
    [error |-> "invalid_grant", error_description |-> "code expired"],
    [token_type |-> "bearer"],
    Null }

\* the replies of the token endpoint: a rejected request, or a status and a
\* body
PostFormReplies ==
  { [net |-> "fail", status |-> 0, body |-> Null] } \cup
  { [net |-> "ok", status |-> st, body |-> b] :
      st \in PostFormStatuses, b \in PostFormBodies }

NoOutcome == [pending |-> TRUE]

\* what a call of httpPostForm ends with: a thrown Error, or `json || {}`
HttpPostFormOutcome(native, reply) ==
  IF HttpPostFormThrows(native, reply)
    THEN [throws |-> TRUE]
    ELSE [returns |-> IF reply.body = Null THEN EmptyObject ELSE reply.body]

\* Both branches are applied to each reply; the app part of the state is held
\* fixed.
PostFormInit ==
  /\ AppInit
  /\ ~isNative
  /\ prefs = [k \in Keys |-> Absent]
  /\ lcp = IdleLcp /\ px = IdlePx /\ vat = IdleVat /\ reg = IdleReg
  /\ \E r \in PostFormReplies :
       pf = [pc |-> "call", reply |-> r, native |-> NoOutcome,
             web |-> NoOutcome]

\* the branch of Capacitor.isNativePlatform() (lines 245-267)
PostFormNative ==
  /\ pf.pc = "call"
  /\ pf.native = NoOutcome
  /\ pf' = [pf EXCEPT !.native = HttpPostFormOutcome(TRUE, pf.reply)]
  /\ UNCHANGED <<appVars, lcp, px, vat, reg>>

\* the browser branch (lines 269-283)
PostFormWeb ==
  /\ pf.pc = "call"
  /\ pf.web = NoOutcome
  /\ pf' = [pf EXCEPT !.web = HttpPostFormOutcome(FALSE, pf.reply)]
  /\ UNCHANGED <<appVars, lcp, px, vat, reg>>

NextPostForm == PostFormNative \/ PostFormWeb

SpecPostForm == PostFormInit /\ [][NextPostForm]_vars

\* C26: the native and the web branch of httpPostForm agree: given the same
\* server reply, both throw or both return the same JSON (a 2xx reply whose
\* body carries an "error" field included).
C26_PostFormBranchesAgree ==
  (pf.pc = "call" /\ pf.native # NoOutcome /\ pf.web # NoOutcome)
    => pf.native = pf.web

\* the later requests of the call that issued request i
LaterOf(i) == {j \in (i + 1)..Len(net) : net[j].by = net[i].by}

\* the call that issued request i is at request r now
CallIsAt(i, r) == IF net[i].by = "bare" THEN bare.pc = r ELSE ens.pc = r

LineAdded(log) ==
  \E i \in 1..Len(log) : log[i] = Req("call", "cartLinesAdd", TRUE)

\* C23: every failed add-to-cart is surfaced and no success is announced
\* early: the success toast of an add-to-cart entry point is shown only after
\* the cartLinesAdd request succeeded, and an add-to-cart that ends with a
\* failed request sets the error (or an error toast).
C23_AddToCartSurfaced ==
  /\ [][(toast' # toast /\ toast' \in {AddedToCart, QuickAdded})
         => LineAdded(net')]_vars
  /\ [][(ens.owner \in {"add", "quick"} /\ ens.pc # "idle"
           /\ ens'.pc = "idle" /\ ~net'[Len(net')].ok)
         => (error' # "" \/ toast' \notin {toast, AddedToCart, QuickAdded})]_vars

\* the cartCreate requests of the current action that created a cart
CartsCreated == {i \in 1..Len(net) : net[i].req = "cartCreate" /\ net[i].ok}

\* C24: cart identity is consistent under concurrent actions: once all
\* in-flight operations have finished, every line the action added sits in
\* the cart identified by cartId, and the overlapping ensureCartId calls of
\* one action (the un-awaited ensureCartId() and the one inside
\* cartAddLine() of a quick add) create at most one new cart.
C24_CartIdentityConsistent ==
  /\ (ens.pc = "idle" /\ bare.pc = "idle") => linesIn \subseteq {cartId}
  /\ Cardinality(CartsCreated) <= 1

====
